---- MODULE Spec2Model ----
(***************************************************************************)
(* Model of the generation session protocol of readme-ai-frontend:         *)
(* the useGenerateReadme hook (hooks/readme/use-generate-readme.ts), its   *)
(* EventSource transport, its React state and its react-query mutation.    *)
(*                                                                         *)
(* One session is one invocation of mutationFn.  Session s owns the        *)
(* promise returned by mutationFn (promise[s]) and the EventSource it      *)
(* constructs (readyState[s]).  The hook instance owns progress,           *)
(* eventSourceRef and the mutation observer (mutation).                    *)
(***************************************************************************)
EXTENDS Integers, Sequences, FiniteSets, TLC

\* Number of mutate() calls explored for one hook instance.
MaxSessions == 2

Sessions == 1..MaxSessions

\* ProgressIndicator: const stages = ["init", "analysis", "template", "generation"]
stages == <<"init", "analysis", "template", "generation">>

\* Array.prototype.indexOf over stages, 0-based, -1 when absent.
indexOf(stage) ==
    IF \E i \in 1..Len(stages) : stages[i] = stage
    THEN (CHOOSE i \in 1..Len(stages) : stages[i] = stage) - 1
    ELSE -1

\* A JavaScript undefined (an absent property or argument).
Undefined == "undefined"

\* RepoRequestParams.repo_url as a caller may pass it to mutate().
RepoUrls == {"https://github.com/o/r", Undefined}

\* Stage tags the producer may put on the wire ("deploy" is not a stage).
WireStages == {"init", "analysis", "template", "generation", "deploy"}

\* Fractions on the wire, in tenths: 0.0, 0.5, 1.5.
WireFractions == {0, 5, 15}

WireMessages == {"working"}

Artifacts == {"# A", "# B"}

\* error_code values the producer may send in an error frame.
WireErrorCodes == {"VALIDATION_ERROR", "INTERNAL_SERVER_ERROR"}

\* event.data of a "progress" frame: JSON text of a ProgressUpdate, or text
\* that is not JSON (ok = FALSE).
ProgressData ==
    [ok : {TRUE}, stage : WireStages, message : WireMessages, progress : WireFractions]
    \cup {[ok |-> FALSE, stage |-> "", message |-> "", progress |-> 0]}

\* event.data of a "complete" frame: {"data": artifact}, or text that is not JSON.
CompleteData ==
    [ok : {TRUE}, data : Artifacts] \cup {[ok |-> FALSE, data |-> ""]}

\* The event an "error" listener receives: a server-sent frame named error
\* (hasData, JSON or not), or the EventSource's own error Event (no data).
ErrorData ==
    [hasData : {TRUE}, ok : {TRUE}, error_code : WireErrorCodes,
     message : {"bad ref"}, details : {"{status_code: 400}"},
     timestamp : {"2025-01-01T00:00:00Z"}]
    \cup {[hasData |-> TRUE, ok |-> FALSE, error_code |-> "", message |-> "",
           details |-> "", timestamp |-> ""]}
    \cup {[hasData |-> FALSE, ok |-> FALSE, error_code |-> "", message |-> "",
           details |-> "", timestamp |-> ""]}

NoData == [ok |-> FALSE]

\* useState<ProgressUpdate | null>(null)
Null == [stage |-> "null", message |-> "null", progress |-> 0]

\* JSON.parse(event.data) of a progress frame that is JSON.
ParseProgress(d) == [stage |-> d.stage, message |-> d.message, progress |-> d.progress]

\* class ApiError: new ApiError(message, errorCode, details?, timestamp?)
ApiError(message, errorCode, details, timestamp) ==
    [message |-> message, errorCode |-> errorCode, details |-> details,
     timestamp |-> timestamp]

\* A promise: its state, and its value (state resolved) or the fields of the
\* ApiError it was rejected with (state rejected; value is the errorCode).
Pending == [state |-> "pending", value |-> "", message |-> "", details |-> "",
            timestamp |-> ""]
Resolved(v) == [state |-> "resolved", value |-> v, message |-> "", details |-> "",
                timestamp |-> ""]
Rejected(e) == [state |-> "rejected", value |-> e.errorCode, message |-> e.message,
                details |-> e.details, timestamp |-> e.timestamp]
NoPromise == [state |-> "none", value |-> "", message |-> "", details |-> "",
              timestamp |-> ""]

\* The two errors the hook constructs itself.
AuthRequired == ApiError("Authentication required", "AUTH_REQUIRED", Undefined, Undefined)
ConnectionError == ApiError("Failed to connect to server", "CONNECTION_ERROR", Undefined, Undefined)

\* new ApiError(errorData.message, errorData.error_code, errorData.details,
\* errorData.timestamp) for the parsed data of an error frame.
ParseError(d) == ApiError(d.message, d.error_code, d.details, d.timestamp)

VARIABLES
    promise,        \* promise[s]: the promise returned by mutationFn for session s
    readyState,     \* readyState[s]: EventSource of session s (NONE before construction)
    eventSourceRef, \* eventSourceRef.current: 0 is null, else the session whose EventSource it is
    progress,       \* React state progress
    progressFrom,   \* the session whose listener last called setProgress (0: none)
    mutation,       \* the mutation the react-query observer is attached to (0: idle)
    lastOp,         \* the handler that ran last, with the event it received
    apiError,       \* the ApiError a caller hands to the functions of services/utils.ts
    shown,          \* what those functions returned for apiError (<<>>: not called yet)
    props,          \* ProgressIndicator: the progress prop its parent passes
    view,           \* ProgressIndicator: what its last render returned, and for which prop
    displayed,      \* ErrorDisplay: the error prop its parent passes
    element,        \* ErrorDisplay: the element it returned ("none" before it rendered)
    retryAfter,     \* UsageLimitExceeded: its retryAfter prop
    timeRemaining,  \* UsageLimitExceeded: its timeRemaining state, queued updates applied
    timer,          \* UsageLimitExceeded: an interval is set and not cleared
    deps,           \* UsageLimitExceeded: <<timeRemaining>> of the effect's last run
    frames,         \* generateReadme: the frames the producer writes to the response
    chunks,         \* generateReadme: the chunks reader.read() has still to return
    processed,      \* generateReadme: the frames whose branch has run, in order
    result,         \* generateReadme: let result
    returned        \* generateReadme: the promise it returned

hookVars == <<promise, readyState, eventSourceRef, progress, progressFrom, mutation, lastOp>>

\* The variables that are not state of the useGenerateReadme hook.
others == <<apiError, shown, props, view,
            displayed, element, retryAfter, timeRemaining, timer, deps,
            frames, chunks, processed, result, returned>>

\* The variables of the components rendered from the hook's results.
components == <<props, view, displayed, element, retryAfter, timeRemaining, timer, deps,
                frames, chunks, processed, result, returned>>

indicatorVars == <<props, view>>
displayVars == <<displayed, element, retryAfter, timeRemaining, timer, deps>>
streamVars == <<frames, chunks, processed, result, returned>>

vars == <<promise, readyState, eventSourceRef, progress, progressFrom, mutation, lastOp,
          apiError, shown, props, view,
          displayed, element, retryAfter, timeRemaining, timer, deps,
          frames, chunks, processed, result, returned>>

NoShown == [message |-> <<>>, action |-> <<>>, severity |-> <<>>, retryable |-> <<>>]

\* What ProgressIndicator returns when it returns null.
NullElement == [null |-> TRUE, step |-> 0, of |-> 0, percent |-> 0, message |-> "",
                icons |-> <<>>]

\* ProgressIndicator before its first render.
NoView == [mounted |-> FALSE, memoizedProps |-> Null, element |-> NullElement]

\* ErrorDisplay and UsageLimitExceeded are not mounted.
NoDisplay ==
    /\ displayed = ApiError(Undefined, Undefined, <<>>, Undefined)
    /\ element = "none"
    /\ retryAfter = 0
    /\ timeRemaining = 0
    /\ timer = FALSE
    /\ deps = <<>>

\* readmeService.generateReadme has not been called.
NoStream ==
    /\ frames = <<>>
    /\ chunks = <<>>
    /\ processed = <<>>
    /\ result = ""
    /\ returned = NoPromise

\* No component is mounted and the fetch-stream service is not in use.
Unmounted ==
    /\ props = Null
    /\ view = NoView
    /\ NoDisplay
    /\ NoStream

Op(op, s, d) == [op |-> op, s |-> s, data |-> d]

Init ==
    /\ promise = [s \in Sessions |-> NoPromise]
    /\ readyState = [s \in Sessions |-> "NONE"]
    /\ eventSourceRef = 0
    /\ progress = Null
    /\ progressFrom = 0
    /\ mutation = 0
    /\ lastOp = Op("init", 0, NoData)
    /\ apiError = ApiError(Undefined, Undefined, Undefined, Undefined)
    /\ shown = NoShown
    /\ Unmounted

\* ---- the session state machine of the spec, read off the code's state ----
Connecting(s) == promise[s].state = "pending" /\ readyState[s] \in {"NONE", "CONNECTING"}
Streaming(s)  == promise[s].state = "pending" /\ readyState[s] = "OPEN"
Completed(s)  == promise[s].state = "resolved"
Failed(s)     == promise[s].state = "rejected"
Cancelled(s)  == promise[s].state = "pending" /\ readyState[s] = "CLOSED"
Active(s)     == Connecting(s) \/ Streaming(s)
Terminal(s)   == Completed(s) \/ Failed(s) \/ Cancelled(s)
Started(s)    == promise[s].state # "none"

\* ---- what the caller observes through the returned mutation ----
status == IF mutation = 0 THEN "idle"
          ELSE CASE promise[mutation].state = "resolved" -> "success"
                 [] promise[mutation].state = "rejected" -> "error"
                 [] OTHER -> "pending"
data  == IF status = "success" THEN promise[mutation].value ELSE ""
error == IF status = "error" THEN promise[mutation].value ELSE ""

\* A single-shot mutate: refused once the observer has held a mutation.
mutateOnce(s, repo_url) ==
    /\ mutation = 0
    /\ \A t \in Sessions : ~Started(t)
    /\ promise[s].state = "none"
    /\ promise' = [promise EXCEPT ![s] = Pending]
    /\ mutation' = s
    /\ lastOp' = Op("mutate", s, [ok |-> repo_url # Undefined])
    /\ UNCHANGED others
    /\ UNCHANGED <<readyState, eventSourceRef, progress, progressFrom>>

\* mutate(params): the observer attaches to a new mutation and mutationFn
\* starts, suspended at `await getToken()`; params.repo_url is only read later,
\* to build the URL of the EventSource.
mutate(s, repo_url) ==
    /\ promise[s].state = "none"
    /\ \A t \in Sessions : t < s => Started(t)
    /\ promise' = [promise EXCEPT ![s] = Pending]
    /\ mutation' = s
    /\ lastOp' = Op("mutate", s, [ok |-> repo_url # Undefined])
    /\ UNCHANGED others
    /\ UNCHANGED <<readyState, eventSourceRef, progress, progressFrom>>

\* getToken whose missing-token error carries another errorCode.
getTokenUnauthorized(s, token) ==
    /\ promise[s].state = "pending"
    /\ readyState[s] = "NONE"
    /\ IF token
       THEN /\ readyState' = [readyState EXCEPT ![s] = "CONNECTING"]
            /\ eventSourceRef' = s
            /\ UNCHANGED promise
       ELSE /\ promise' = [promise EXCEPT ![s] =
                             Rejected(ApiError("Authentication required", "UNAUTHORIZED",
                                               Undefined, Undefined))]
            /\ UNCHANGED <<readyState, eventSourceRef>>
    /\ lastOp' = Op("getToken", s, [ok |-> token])
    /\ UNCHANGED others
    /\ UNCHANGED <<progress, progressFrom, mutation>>

\* getToken that constructs the EventSource before it looks at the token.
getTokenAfterConnect(s, token) ==
    /\ promise[s].state = "pending"
    /\ readyState[s] = "NONE"
    /\ readyState' = [readyState EXCEPT ![s] = "CONNECTING"]
    /\ eventSourceRef' = s
    /\ IF token
       THEN UNCHANGED promise
       ELSE promise' = [promise EXCEPT ![s] = Rejected(AuthRequired)]
    /\ lastOp' = Op("getToken", s, [ok |-> token])
    /\ UNCHANGED others
    /\ UNCHANGED <<progress, progressFrom, mutation>>

\* getToken() settles: without a token mutationFn throws AUTH_REQUIRED,
\* otherwise the EventSource is constructed and stored in eventSourceRef.
getToken(s, token) ==
    /\ promise[s].state = "pending"
    /\ readyState[s] = "NONE"
    /\ IF token
       THEN /\ readyState' = [readyState EXCEPT ![s] = "CONNECTING"]
            /\ eventSourceRef' = s
            /\ UNCHANGED promise
       ELSE /\ promise' = [promise EXCEPT ![s] = Rejected(AuthRequired)]
            /\ UNCHANGED <<readyState, eventSourceRef>>
    /\ lastOp' = Op("getToken", s, [ok |-> token])
    /\ UNCHANGED others
    /\ UNCHANGED <<progress, progressFrom, mutation>>

\* The EventSource's connection is established (no listener is registered for it).
open(s) ==
    /\ readyState[s] = "CONNECTING"
    /\ readyState' = [readyState EXCEPT ![s] = "OPEN"]
    /\ lastOp' = Op("open", s, NoData)
    /\ UNCHANGED others
    /\ UNCHANGED <<promise, eventSourceRef, progress, progressFrom, mutation>>

\* onProgress that merges the update into the previous one, keeping its message.
onProgressKeepMessage(s, d) ==
    /\ readyState[s] = "OPEN"
    /\ IF d.ok
       THEN /\ progress' = [ParseProgress(d) EXCEPT !.message = progress.message]
            /\ progressFrom' = s
       ELSE UNCHANGED <<progress, progressFrom>>
    /\ lastOp' = Op("progress", s, d)
    /\ UNCHANGED others
    /\ UNCHANGED <<promise, readyState, eventSourceRef, mutation>>

\* The "progress" listener: setProgress(JSON.parse(event.data)).
onProgress(s, d) ==
    /\ readyState[s] = "OPEN"
    /\ IF d.ok
       THEN progress' = ParseProgress(d) /\ progressFrom' = s
       ELSE UNCHANGED <<progress, progressFrom>>
    /\ lastOp' = Op("progress", s, d)
    /\ UNCHANGED others
    /\ UNCHANGED <<promise, readyState, eventSourceRef, mutation>>

\* resolve()/reject() of the promise of session s: a settled promise stays as it is.
Settle(s, outcome) ==
    IF promise[s].state = "pending" THEN [promise EXCEPT ![s] = outcome] ELSE promise

\* onComplete that resolves but leaves the EventSource open.
onCompleteNoClose(s, d) ==
    /\ readyState[s] = "OPEN"
    /\ IF d.ok
       THEN promise' = Settle(s, Resolved(d.data))
       ELSE UNCHANGED promise
    /\ lastOp' = Op("complete", s, d)
    /\ UNCHANGED others
    /\ UNCHANGED <<readyState, eventSourceRef, progress, progressFrom, mutation>>

\* onComplete that closes the EventSource but keeps eventSourceRef.current.
onCompleteKeepRef(s, d) ==
    /\ readyState[s] = "OPEN"
    /\ IF d.ok
       THEN /\ promise' = Settle(s, Resolved(d.data))
            /\ readyState' = [readyState EXCEPT ![s] = "CLOSED"]
       ELSE UNCHANGED <<promise, readyState>>
    /\ lastOp' = Op("complete", s, d)
    /\ UNCHANGED others
    /\ UNCHANGED <<eventSourceRef, progress, progressFrom, mutation>>

\* The "complete" listener.
onComplete(s, d) ==
    /\ readyState[s] = "OPEN"
    /\ IF d.ok
       THEN /\ promise' = Settle(s, Resolved(d.data))
            /\ readyState' = [readyState EXCEPT ![s] = "CLOSED"]
            /\ eventSourceRef' = 0
       ELSE UNCHANGED <<promise, readyState, eventSourceRef>>
    /\ lastOp' = Op("complete", s, d)
    /\ UNCHANGED others
    /\ UNCHANGED <<progress, progressFrom, mutation>>

\* onError that reports every failure it cannot parse as the server's fault.
onErrorAsServerError(s, d) ==
    /\ IF d.hasData THEN readyState[s] = "OPEN"
                    ELSE readyState[s] \in {"CONNECTING", "OPEN"}
    /\ promise' = Settle(s, Rejected(IF d.hasData /\ d.ok THEN ParseError(d)
                                     ELSE ApiError("Failed to connect to server",
                                                   "INTERNAL_SERVER_ERROR", Undefined, Undefined)))
    /\ readyState' = [readyState EXCEPT ![s] = "CLOSED"]
    /\ eventSourceRef' = 0
    /\ lastOp' = Op("error", s, d)
    /\ UNCHANGED others
    /\ UNCHANGED <<progress, progressFrom, mutation>>

\* onError that passes only message and error_code to the ApiError.
onErrorShortError(s, d) ==
    /\ IF d.hasData THEN readyState[s] = "OPEN"
                    ELSE readyState[s] \in {"CONNECTING", "OPEN"}
    /\ IF d.hasData /\ ~d.ok
       THEN UNCHANGED <<promise, readyState, eventSourceRef>>
       ELSE /\ promise' = Settle(s, Rejected(IF d.hasData
                                             THEN ApiError(d.message, d.error_code,
                                                           Undefined, Undefined)
                                             ELSE ConnectionError))
            /\ readyState' = [readyState EXCEPT ![s] = "CLOSED"]
            /\ eventSourceRef' = 0
    /\ lastOp' = Op("error", s, d)
    /\ UNCHANGED others
    /\ UNCHANGED <<progress, progressFrom, mutation>>

\* onError that does not close the EventSource, which then reconnects by itself.
onErrorReconnect(s, d) ==
    /\ IF d.hasData THEN readyState[s] = "OPEN"
                    ELSE readyState[s] \in {"CONNECTING", "OPEN"}
    /\ IF d.hasData /\ ~d.ok
       THEN UNCHANGED <<promise, readyState, eventSourceRef>>
       ELSE /\ promise' = Settle(s, Rejected(IF d.hasData THEN ParseError(d)
                                                         ELSE ConnectionError))
            /\ readyState' = [readyState EXCEPT ![s] = "CONNECTING"]
            /\ eventSourceRef' = 0
    /\ lastOp' = Op("error", s, d)
    /\ UNCHANGED others
    /\ UNCHANGED <<progress, progressFrom, mutation>>

\* The "error" listener: a server-sent error frame, or the transport's own error.
onError(s, d) ==
    /\ IF d.hasData THEN readyState[s] = "OPEN"
                    ELSE readyState[s] \in {"CONNECTING", "OPEN"}
    /\ IF d.hasData /\ ~d.ok
       THEN UNCHANGED <<promise, readyState, eventSourceRef>>
       ELSE /\ promise' = Settle(s, Rejected(IF d.hasData THEN ParseError(d)
                                                         ELSE ConnectionError))
            /\ readyState' = [readyState EXCEPT ![s] = "CLOSED"]
            /\ eventSourceRef' = 0
    /\ lastOp' = Op("error", s, d)
    /\ UNCHANGED others
    /\ UNCHANGED <<progress, progressFrom, mutation>>

\* cancel() without its null check on eventSourceRef.current.
cancelOfUnguarded(h) ==
    [eventSourceRef |-> 0,
     readyState |-> [s \in Sessions |->
                       IF s = h.eventSourceRef THEN "CLOSED" ELSE h.readyState[s]],
     progress |-> Null,
     mutation |-> 0]

\* What cancel() leaves of the hook's state h.
cancelOf(h) ==
    IF h.eventSourceRef # 0
    THEN [eventSourceRef |-> 0,
          readyState |-> [h.readyState EXCEPT ![h.eventSourceRef] = "CLOSED"],
          progress |-> Null,
          mutation |-> 0]
    ELSE h

hook == [eventSourceRef |-> eventSourceRef, readyState |-> readyState,
         progress |-> progress, mutation |-> mutation]

cancel ==
    /\ eventSourceRef' = cancelOf(hook).eventSourceRef
    /\ readyState' = cancelOf(hook).readyState
    /\ progress' = cancelOf(hook).progress
    /\ mutation' = cancelOf(hook).mutation
    /\ progressFrom' = IF eventSourceRef # 0 THEN 0 ELSE progressFrom
    /\ lastOp' = Op("cancel", eventSourceRef, NoData)
    /\ UNCHANGED others
    /\ UNCHANGED promise

Next ==
    \/ \E s \in Sessions, repo_url \in RepoUrls : mutate(s, repo_url)
    \/ \E s \in Sessions, token \in BOOLEAN : getToken(s, token)
    \/ \E s \in Sessions : open(s)
    \/ \E s \in Sessions, d \in ProgressData : onProgress(s, d)
    \/ \E s \in Sessions, d \in CompleteData : onComplete(s, d)
    \/ \E s \in Sessions, d \in ErrorData : onError(s, d)
    \/ cancel

Spec == Init /\ [][Next]_vars

\* The caller's getToken() promise settles, and every connection ends: the
\* producer closes it after the terminal frame (or the network drops it), which
\* the EventSource reports as an error Event without data.
TransportError == [hasData |-> FALSE, ok |-> FALSE, error_code |-> "", message |-> "",
                   details |-> "", timestamp |-> ""]

FairSpec ==
    /\ Spec
    /\ \A s \in Sessions : WF_hookVars(\E token \in BOOLEAN : getToken(s, token))
    /\ \A s \in Sessions : WF_hookVars(onError(s, TransportError))

\* ------------------------------------------------------------------------
\* The Error Classifier: services/utils.ts
\* ------------------------------------------------------------------------

\* The ErrorKind enumeration of the session protocol.
ErrorKind == {"VALIDATION_ERROR", "REPO_ACCESS_ERROR", "ANALYSIS_ERROR",
              "RATE_LIMIT_EXCEEDED", "INSUFFICIENT_TOKENS", "INTERNAL_SERVER_ERROR",
              "CONNECTION_ERROR"}

\* errorCode values handed to the classifier: the ErrorKinds, the other codes
\* utils.ts has a case for, the hook's AUTH_REQUIRED, and unrecognized ones.
ErrorCodes ==
    ErrorKind \cup {"FORBIDDEN", "NOT_FOUND", "USER_NOT_FOUND", "TEMPLATE_NOT_FOUND",
                    "TEMPLATE_ACCESS_DENIED", "AUTH_REQUIRED", "SOMETHING_ELSE", Undefined}

DefaultMessage ==
    "An unexpected error occurred. Please try again or contact support if the issue persists."

\* getErrorMessage whose switch has no default branch.
getErrorMessageNoDefault(e) ==
    CASE e.errorCode = "REPO_ACCESS_ERROR" ->
           "Unable to access this repository. Please verify it exists and you have proper permissions."
      [] e.errorCode = "VALIDATION_ERROR" ->
           "The GitHub repository URL provided is not valid. Please check the URL and try again."
      [] e.errorCode = "ANALYSIS_ERROR" ->
           "We couldn't analyze this repository. Please verify the repository contains valid code."
      [] e.errorCode = "FORBIDDEN" -> "You don't have permission to perform this action."
      [] e.errorCode = "NOT_FOUND" -> "The requested resource was not found."
      [] e.errorCode = "USER_NOT_FOUND" ->
           "User account not found. Please ensure you're logged in."
      [] e.errorCode = "RATE_LIMIT_EXCEEDED" ->
           "You've reached the rate limit. Please wait before trying again."
      [] e.errorCode = "INSUFFICIENT_TOKENS" ->
           "You've used all available tokens. Please wait for the next reset or purchase more tokens."
      [] e.errorCode = "INTERNAL_SERVER_ERROR" ->
           "Our service is experiencing technical difficulties. Please try again later."
      [] e.errorCode = "TEMPLATE_NOT_FOUND" -> "The requested template could not be found."
      [] e.errorCode = "TEMPLATE_ACCESS_DENIED" ->
           "You don't have permission to access this template."
      [] OTHER -> Undefined

getErrorMessage(e) ==
    CASE e.errorCode = "REPO_ACCESS_ERROR" ->
           "Unable to access this repository. Please verify it exists and you have proper permissions."
      [] e.errorCode = "VALIDATION_ERROR" ->
           "The GitHub repository URL provided is not valid. Please check the URL and try again."
      [] e.errorCode = "ANALYSIS_ERROR" ->
           "We couldn't analyze this repository. Please verify the repository contains valid code."
      [] e.errorCode = "FORBIDDEN" -> "You don't have permission to perform this action."
      [] e.errorCode = "NOT_FOUND" -> "The requested resource was not found."
      [] e.errorCode = "USER_NOT_FOUND" ->
           "User account not found. Please ensure you're logged in."
      [] e.errorCode = "RATE_LIMIT_EXCEEDED" ->
           "You've reached the rate limit. Please wait before trying again."
      [] e.errorCode = "INSUFFICIENT_TOKENS" ->
           "You've used all available tokens. Please wait for the next reset or purchase more tokens."
      [] e.errorCode = "INTERNAL_SERVER_ERROR" ->
           "Our service is experiencing technical difficulties. Please try again later."
      [] e.errorCode = "TEMPLATE_NOT_FOUND" -> "The requested template could not be found."
      [] e.errorCode = "TEMPLATE_ACCESS_DENIED" ->
           "You don't have permission to access this template."
      [] OTHER -> DefaultMessage

getErrorAction(e) ==
    CASE e.errorCode = "REPO_ACCESS_ERROR" -> "Check Repository Access"
      [] e.errorCode = "VALIDATION_ERROR" -> "Check Repository URL"
      [] e.errorCode = "ANALYSIS_ERROR" -> "Verify Repository Content"
      [] e.errorCode = "FORBIDDEN" -> "Check Permissions"
      [] e.errorCode = "NOT_FOUND" -> "Verify Resource"
      [] e.errorCode = "USER_NOT_FOUND" -> "Sign In"
      [] e.errorCode = "RATE_LIMIT_EXCEEDED" -> "Wait and Retry"
      [] e.errorCode = "INSUFFICIENT_TOKENS" -> "View Token Status"
      [] e.errorCode = "TEMPLATE_NOT_FOUND" -> "Browse Templates"
      [] e.errorCode = "TEMPLATE_ACCESS_DENIED" -> "Check Permissions"
      [] OTHER -> "Try Again"

getErrorSeverity(e) ==
    CASE e.errorCode \in {"INTERNAL_SERVER_ERROR", "ANALYSIS_ERROR"} -> "error"
      [] e.errorCode \in {"RATE_LIMIT_EXCEEDED", "INSUFFICIENT_TOKENS", "FORBIDDEN"} -> "warning"
      [] e.errorCode \in {"VALIDATION_ERROR", "NOT_FOUND", "USER_NOT_FOUND"} -> "info"
      [] OTHER -> "error"

retryableCodes == <<"INTERNAL_SERVER_ERROR", "ANALYSIS_ERROR", "RATE_LIMIT_EXCEEDED">>

\* Array.prototype.includes
includes(array, x) == \E i \in 1..Len(array) : array[i] = x

\* isRetryableError that also retries after a lost connection.
isRetryableErrorOrConnection(e) ==
    includes(retryableCodes \o <<"CONNECTION_ERROR">>, e.errorCode)

isRetryableError(e) == includes(retryableCodes, e.errorCode)

\* A caller holds some ApiError and has called none of the functions yet.
ClassifierInit ==
    /\ promise = [s \in Sessions |-> NoPromise]
    /\ readyState = [s \in Sessions |-> "NONE"]
    /\ eventSourceRef = 0
    /\ progress = Null
    /\ progressFrom = 0
    /\ mutation = 0
    /\ lastOp = Op("init", 0, NoData)
    /\ apiError \in {ApiError("bad ref", code, Undefined, Undefined) : code \in ErrorCodes}
    /\ shown = NoShown
    /\ Unmounted

callGetErrorMessage ==
    /\ shown.message = <<>>
    /\ shown' = [shown EXCEPT !.message = <<getErrorMessage(apiError)>>]
    /\ UNCHANGED <<apiError, hookVars, components>>

callGetErrorAction ==
    /\ shown.action = <<>>
    /\ shown' = [shown EXCEPT !.action = <<getErrorAction(apiError)>>]
    /\ UNCHANGED <<apiError, hookVars, components>>

callGetErrorSeverity ==
    /\ shown.severity = <<>>
    /\ shown' = [shown EXCEPT !.severity = <<getErrorSeverity(apiError)>>]
    /\ UNCHANGED <<apiError, hookVars, components>>

callIsRetryableError ==
    /\ shown.retryable = <<>>
    /\ shown' = [shown EXCEPT !.retryable = <<isRetryableError(apiError)>>]
    /\ UNCHANGED <<apiError, hookVars, components>>

ClassifierNext ==
    \/ callGetErrorMessage
    \/ callGetErrorAction
    \/ callGetErrorSeverity
    \/ callIsRetryableError

ClassifierSpec == ClassifierInit /\ [][ClassifierNext]_vars

\* ------------------------------------------------------------------------
\* ProgressIndicator (components/readme/progress-indicator.tsx)
\* ------------------------------------------------------------------------

\* The progress props a parent may pass: any ProgressUpdate, or null.
IndicatorMessages == {"working", "almost done"}
IndicatorFractions == WireFractions \cup {-1, 10}
IndicatorProps ==
    [stage : WireStages, message : IndicatorMessages, progress : IndicatorFractions]
    \cup {Null}

\* getStepNumber that forgets the + 1.
getStepNumberZeroBased(stage) == indexOf(stage)

getStepNumber(stage) == indexOf(stage) + 1

\* getStageIcon(index) for const currentStep = getStepNumber(progress.stage)
getStageIcon(index, currentStep) ==
    IF index < currentStep - 1 THEN "CheckCircle"
    ELSE IF index = currentStep - 1 THEN "CircleDot"
    ELSE "Circle"

\* The element ProgressIndicator returns for a progress prop; fractions are in
\* tenths, so Math.round(progress.progress * 100) is ten times the fraction.
ProgressIndicator(p) ==
    IF p = Null THEN NullElement
    ELSE [null |-> FALSE,
          step |-> getStepNumber(p.stage),
          of |-> Len(stages),
          percent |-> p.progress * 10,
          message |-> p.message,
          icons |-> [i \in 1..Len(stages) |-> getStageIcon(i - 1, getStepNumber(p.stage))]]

\* The hook is idle and no ApiError is being classified.
HookIdle ==
    /\ promise = [s \in Sessions |-> NoPromise]
    /\ readyState = [s \in Sessions |-> "NONE"]
    /\ eventSourceRef = 0
    /\ progress = Null
    /\ progressFrom = 0
    /\ mutation = 0
    /\ lastOp = Op("init", 0, NoData)
    /\ apiError = ApiError(Undefined, Undefined, Undefined, Undefined)
    /\ shown = NoShown

IndicatorInit ==
    /\ HookIdle
    /\ Unmounted

\* The parent re-renders with another progress value.
setProps(p) ==
    /\ p # props
    /\ props' = p
    /\ UNCHANGED <<view, hookVars, apiError, shown, displayVars, streamVars>>

\* React renders ProgressIndicator with the current props.
render ==
    /\ ~view.mounted \/ view.memoizedProps # props
    /\ view' = [mounted |-> TRUE, memoizedProps |-> props, element |-> ProgressIndicator(props)]
    /\ UNCHANGED <<props, hookVars, apiError, shown, displayVars, streamVars>>

IndicatorNext ==
    \/ \E p \in IndicatorProps : setProps(p)
    \/ render

IndicatorSpec == IndicatorInit /\ [][IndicatorNext]_vars

\* ------------------------------------------------------------------------
\* ErrorDisplay and UsageLimitExceeded
\* ------------------------------------------------------------------------

\* Largest retryAfter a parent mounts UsageLimitExceeded with directly.
MaxRetryAfter == 5

\* Interval callbacks that can run before React has flushed the effect of the
\* render they caused.
MaxTicksBeforeEffect == 2

\* details.time_remaining values of the errors shown, in seconds.
TimesRemaining == {0, 1, 2, 30}

\* error.details: absent (<<>>), or an object whose time_remaining is absent
\* (<<>>) or a number.
ErrorDetails ==
    {<<>>} \cup {<<[time_remaining |-> <<>>]>>}
           \cup {<<[time_remaining |-> <<n>>]>> : n \in TimesRemaining}

DisplayedErrors ==
    {ApiError("limit", code, details, Undefined) :
        code \in {"RATE_LIMIT_EXCEEDED", "INSUFFICIENT_TOKENS", "VALIDATION_ERROR"},
        details \in ErrorDetails}

\* error.details?.time_remaining is truthy: present and not 0.
HasTimeRemaining(e) ==
    /\ e.details # <<>>
    /\ e.details[1].time_remaining # <<>>
    /\ e.details[1].time_remaining[1] # 0

\* What ErrorDisplay returns for an error: the component, and its retryAfter.
ErrorDisplay(e) ==
    IF e.errorCode = "RATE_LIMIT_EXCEEDED"
    THEN [component |-> "UsageLimitExceeded", retryAfter |-> 60]
    ELSE IF e.errorCode = "INSUFFICIENT_TOKENS" /\ HasTimeRemaining(e)
    THEN [component |-> "UsageLimitExceeded",
          retryAfter |-> e.details[1].time_remaining[1]]
    ELSE [component |-> "Alert", retryAfter |-> 0]

\* A parent holds an error and has not rendered ErrorDisplay yet.
DisplayInit ==
    /\ HookIdle
    /\ props = Null
    /\ view = NoView
    /\ NoStream
    /\ displayed \in DisplayedErrors
    /\ element = "none"
    /\ retryAfter = 0
    /\ timeRemaining = 0
    /\ timer = FALSE
    /\ deps = <<>>

\* A parent has rendered <UsageLimitExceeded retryAfter={n} />: useState(retryAfter)
\* is the first timeRemaining, and the effect has not run yet.
CountdownInit ==
    /\ HookIdle
    /\ props = Null
    /\ view = NoView
    /\ NoStream
    /\ displayed = ApiError(Undefined, Undefined, <<>>, Undefined)
    /\ element = "UsageLimitExceeded"
    /\ retryAfter \in 0..MaxRetryAfter
    /\ timeRemaining = retryAfter
    /\ timer = FALSE
    /\ deps = <<>>

\* ErrorDisplay renders; a UsageLimitExceeded it returns is mounted with
\* timeRemaining = retryAfter.
renderErrorDisplay ==
    /\ element = "none"
    /\ element' = ErrorDisplay(displayed).component
    /\ retryAfter' = ErrorDisplay(displayed).retryAfter
    /\ timeRemaining' = ErrorDisplay(displayed).retryAfter
    /\ UNCHANGED <<displayed, timer, deps, indicatorVars, streamVars, hookVars, apiError, shown>>

\* The effect of useEffect(..., [timeRemaining]) after a render in which
\* timeRemaining differs from the last run: the previous run's cleanup
\* (clearInterval), then the body (setInterval unless timeRemaining <= 0).
effect ==
    /\ element = "UsageLimitExceeded"
    /\ deps # <<timeRemaining>>
    /\ timer' = (timeRemaining > 0)
    /\ deps' = <<timeRemaining>>
    /\ UNCHANGED <<displayed, element, retryAfter, timeRemaining,
                   indicatorVars, streamVars, hookVars, apiError, shown>>

\* The interval's callback: setTimeRemaining((prevTime) => prevTime - 1).  It
\* runs whenever the interval is due and not cleared, whether or not React
\* has rendered and flushed the effect for the previous callback.
tick ==
    /\ element = "UsageLimitExceeded"
    /\ timer
    /\ deps[1] - timeRemaining < MaxTicksBeforeEffect
    /\ timeRemaining' = timeRemaining - 1
    /\ UNCHANGED <<displayed, element, retryAfter, timer, deps,
                   indicatorVars, streamVars, hookVars, apiError, shown>>

\* The parent stops rendering the component: the effect's cleanup runs.
unmount ==
    /\ element = "UsageLimitExceeded"
    /\ element' = "unmounted"
    /\ timer' = FALSE
    /\ UNCHANGED <<displayed, retryAfter, timeRemaining, deps,
                   indicatorVars, streamVars, hookVars, apiError, shown>>

CountdownNext ==
    \/ effect
    \/ tick
    \/ unmount

CountdownSpec == CountdownInit /\ [][CountdownNext]_vars

DisplayNext ==
    \/ renderErrorDisplay
    \/ effect
    \/ tick
    \/ unmount

DisplaySpec == DisplayInit /\ [][DisplayNext]_vars

\* ------------------------------------------------------------------------
\* readmeService.generateReadme, the fetch-stream variant (services/readme.ts)
\* ------------------------------------------------------------------------

\* Frames in one response, and places where the response is cut into chunks.
MaxFrames == 2
MaxCuts == 1

\* eventData of the frames a producer may write: {event, data}.
StreamFrames ==
    {[event |-> "progress", data |-> "init"],
     [event |-> "progress", data |-> "analysis"],
     [event |-> "complete", data |-> "# A"],
     [event |-> "error", data |-> "VALIDATION_ERROR"]}

NoFrame == [event |-> "", data |-> ""]

\* The response text is a sequence of pieces: the two halves of the prefix
\* "data: ", the two halves of a frame's JSON text, and the newline.
Piece(kind, f) == [kind |-> kind, frame |-> f]
NL == Piece("\\n", NoFrame)

\* What the producer writes for one frame: data: <json>\n\n
EncodeFrame(f) ==
    <<Piece("da", NoFrame), Piece("ta: ", NoFrame), Piece("head", f), Piece("tail", f), NL, NL>>

RECURSIVE Encode(_)
Encode(fs) == IF fs = <<>> THEN <<>> ELSE EncodeFrame(Head(fs)) \o Encode(Tail(fs))

\* The text cut at the given positions (a cut at i falls after piece i), as the
\* chunks reader.read() returns one after the other.
RECURSIVE Cut(_, _, _)
Cut(text, cuts, from) ==
    IF \E i \in cuts : i >= from
    THEN LET i == CHOOSE k \in cuts : k >= from /\ \A m \in cuts : m >= from => k <= m
         IN  <<SubSeq(text, from, i)>> \o Cut(text, cuts, i + 1)
    ELSE <<SubSeq(text, from, Len(text))>>

Chunkings(text) ==
    IF text = <<>> THEN {<<>>}
    ELSE {Cut(text, cuts, 1) :
            cuts \in {c \in SUBSET (1..(Len(text) - 1)) : Cardinality(c) <= MaxCuts}}

RECURSIVE SeqsUpTo(_, _)
SeqsUpTo(S, n) ==
    IF n = 0 THEN {<<>>}
    ELSE SeqsUpTo(S, n - 1) \cup {Append(q, x) : q \in SeqsUpTo(S, n - 1), x \in S}

\* chunk.split("\n")
RECURSIVE split(_)
split(text) ==
    IF \E i \in 1..Len(text) : text[i] = NL
    THEN LET i == CHOOSE k \in 1..Len(text) :
                      text[k] = NL /\ \A m \in 1..(k - 1) : text[m] # NL
         IN  <<SubSeq(text, 1, i - 1)>> \o split(SubSeq(text, i + 1, Len(text)))
    ELSE <<text>>

\* line.startsWith("data: ")
startsWith(line) == Len(line) >= 2 /\ line[1].kind = "da" /\ line[2].kind = "ta: "

\* line.slice(6)
slice(line) == SubSeq(line, 3, Len(line))

\* JSON.parse accepts the text: it is the whole JSON text of one frame.
IsJSON(text) ==
    /\ Len(text) = 2
    /\ text[1].kind = "head" /\ text[2].kind = "tail"
    /\ text[1].frame = text[2].frame

\* What JSON.parse throws otherwise; it is not an ApiError.
SyntaxError == ApiError("SyntaxError", Undefined, Undefined, Undefined)

\* The body of `for (const line of lines)` for one line, on the state
\* st = [processed, result, outcome] of the call.
processLine(st, line) ==
    IF ~startsWith(line) THEN st
    ELSE IF ~IsJSON(slice(line)) THEN [st EXCEPT !.outcome = Rejected(SyntaxError)]
    ELSE LET eventData == slice(line)[1].frame
         IN  CASE eventData.event = "progress" ->
                    [st EXCEPT !.processed = Append(@, eventData)]
               [] eventData.event = "complete" ->
                    [st EXCEPT !.processed = Append(@, eventData),
                               !.result = eventData.data]
               [] eventData.event = "error" ->
                    [st EXCEPT !.processed = Append(@, eventData),
                               !.outcome = Rejected(ApiError("bad ref", eventData.data,
                                                             Undefined, Undefined))]
               [] OTHER -> st

\* The for loop over the lines of one chunk; a throw leaves the loop.
RECURSIVE processLines(_, _)
processLines(st, lines) ==
    IF lines = <<>> \/ st.outcome.state # "pending" THEN st
    ELSE processLines(processLine(st, Head(lines)), Tail(lines))

\* One iteration of `while (true)`: reader.read() returns done, and the call
\* returns result, or returns the next chunk, which is decoded and processed.
readOf(st, cs) ==
    IF cs = <<>> THEN [st EXCEPT !.outcome = Resolved(st.result)]
    ELSE processLines(st, split(Head(cs)))

\* The whole call on the chunks cs.
RECURSIVE generateReadmeOf(_, _)
generateReadmeOf(st, cs) ==
    IF st.outcome.state # "pending" THEN st
    ELSE generateReadmeOf(readOf(st, cs), IF cs = <<>> THEN cs ELSE Tail(cs))

\* The call has started: fetch() has resolved with a response whose body the
\* producer will fill with some frames, delivered in some chunks.
StreamInit ==
    /\ HookIdle
    /\ props = Null
    /\ view = NoView
    /\ NoDisplay
    /\ frames \in SeqsUpTo(StreamFrames, MaxFrames)
    /\ chunks \in Chunkings(Encode(frames))
    /\ processed = <<>>
    /\ result = ""
    /\ returned = Pending

call == [processed |-> processed, result |-> result, outcome |-> returned]

\* await reader.read() and the loop body that follows it.
read ==
    /\ returned.state = "pending"
    /\ processed' = readOf(call, chunks).processed
    /\ result' = readOf(call, chunks).result
    /\ returned' = readOf(call, chunks).outcome
    /\ chunks' = IF chunks = <<>> THEN chunks ELSE Tail(chunks)
    /\ UNCHANGED <<frames, indicatorVars, displayVars, hookVars, apiError, shown>>

StreamNext == read

StreamSpec == StreamInit /\ [][StreamNext]_vars

\* ------------------------------------------------------------------------
\* Properties
\* ------------------------------------------------------------------------
Listeners == {"progress", "complete", "error"}

NoActiveSession == \A s \in Sessions : ~Active(s)

\* C1 (cancel wins the race): a cancel() made while session s is Streaming
\* leaves s Cancelled, and a Cancelled session stays Cancelled: its promise is
\* never resolved or rejected afterwards.
CancelWinsRace ==
    [][\A s \in Sessions :
          /\ (lastOp'.op = "cancel" /\ Streaming(s)) => Cancelled(s)'
          /\ Cancelled(s) => Cancelled(s)']_vars

AtMostOneLiveSession ==
    Cardinality({s \in Sessions : readyState[s] \in {"CONNECTING", "OPEN"}}) <= 1

\* C4 (cancel while Connecting): a cancel() made before the transport of
\* session s is open leaves s Cancelled for good, so that no transport is
\* opened for it and nothing of it becomes observable.
CancelWhileConnecting ==
    [][\A s \in Sessions :
          /\ (lastOp'.op = "cancel" /\ Connecting(s)) =>
                (~Active(s)' /\ promise'[s] = Pending)
          /\ (~Active(s) /\ promise[s] = Pending) =>
                (~Active(s)' /\ promise'[s] = Pending)]_vars

\* C5 (cancel discards the session): a cancel() made while session s is
\* active closes its transport, leaves progress null and the mutation idle
\* without data or error, and the session's promise is never settled.
CancelDiscardsSession ==
    [][\A s \in Sessions :
          /\ (lastOp'.op = "cancel" /\ Active(s)) =>
                /\ readyState'[s] = "CLOSED"
                /\ eventSourceRef' = 0
                /\ progress' = Null
                /\ status' = "idle" /\ data' = "" /\ error' = ""
                /\ promise'[s] = Pending
          /\ (readyState[s] = "CLOSED" /\ promise[s] = Pending) => promise'[s] = Pending]_vars

\* C6 (cancel is idempotent): a cancel() made when no session is active, or
\* right after another cancel(), changes nothing of progress, the mutation,
\* eventSourceRef, the transports and the promises.
CancelIdempotent ==
    [][(lastOp'.op = "cancel" /\ (NoActiveSession \/ lastOp.op = "cancel")) =>
          UNCHANGED <<promise, readyState, eventSourceRef, progress, progressFrom, mutation>>]_vars

CancelIdempotentWitness ==
    /\ lastOp = Op("cancel", 0, NoData)
    /\ NoActiveSession
    /\ \E s, t \in Sessions : Cancelled(s) /\ Completed(t) /\ data = promise[t].value

\* A progress payload the Event Envelope of the spec accepts.
InRange(f) == f >= 0 /\ f <= 10
WellFormedProgress(d) == d.ok /\ indexOf(d.stage) >= 0 /\ InRange(d.progress)

\* C7 (fail-closed decoding): a progress envelope that is malformed, has an
\* unknown stage or a fraction outside [0,1] fails the session with
\* INTERNAL_SERVER_ERROR and is not applied to progress.
FailClosedDecoding ==
    [][(lastOp'.op = "progress" /\ ~WellFormedProgress(lastOp'.data)) =>
          /\ promise'[lastOp'.s].state = "rejected"
          /\ promise'[lastOp'.s].value = "INTERNAL_SERVER_ERROR"
          /\ progress' = progress]_vars

\* C8 (monotonic stage): while progress comes from one session, its stage
\* index never decreases.
MonotonicStage ==
    [][(progress # Null /\ progress' # Null /\ progressFrom' = progressFrom
        /\ indexOf(progress.stage) >= 0 /\ indexOf(progress'.stage) >= 0) =>
          indexOf(progress'.stage) >= indexOf(progress.stage)]_vars

\* C9 (monotonic fraction): while progress comes from one session, its
\* fraction never decreases.
MonotonicFraction ==
    [][(progress # Null /\ progress' # Null /\ progressFrom' = progressFrom
        /\ InRange(progress.progress) /\ InRange(progress'.progress)) =>
          progress'.progress >= progress.progress]_vars

ValidationBeforeConnecting ==
    [][(lastOp'.op = "mutate" /\ ~lastOp'.data.ok) =>
          /\ promise'[lastOp'.s].state = "rejected"
          /\ promise'[lastOp'.s].value = "VALIDATION_ERROR"
          /\ readyState'[lastOp'.s] = "NONE"]_vars

\* C12 (completion): a complete frame with JSON data resolves the session's
\* promise with the frame's data field and, in the same step, closes the
\* EventSource and sets eventSourceRef.current to null.
Completion ==
    [][(lastOp'.op = "complete" /\ lastOp'.data.ok) =>
          /\ promise'[lastOp'.s] = Resolved(lastOp'.data.data)
          /\ readyState'[lastOp'.s] = "CLOSED"
          /\ eventSourceRef' = 0
          /\ mutation' = lastOp'.s => (status' = "success" /\ data' = lastOp'.data.data)]_vars

CompletionWitness ==
    /\ lastOp.op = "complete" /\ lastOp.data.ok
    /\ Completed(lastOp.s) /\ mutation = lastOp.s /\ data = "# B"
    /\ progress # Null

ProgressDiscardedAtOutcome ==
    \A s \in Sessions :
        (/\ mutation = s
         /\ \/ Completed(s)
            \/ Failed(s)
            \/ Active(s) /\ progressFrom # s /\ \A t \in Sessions \ {s} : ~Active(t))
            => progress = Null

Reusable ==
    \A s \in Sessions :
        /\ (~Started(s) /\ \A t \in Sessions : t < s => Started(t)) =>
              \A u \in RepoUrls : ENABLED mutate(s, u)
        /\ (promise[s] = Pending /\ readyState[s] = "NONE") => ENABLED getToken(s, TRUE)
        /\ (promise[s] = Pending /\ readyState[s] = "CONNECTING") => ENABLED open(s)
        /\ Streaming(s) =>
              /\ \A d \in CompleteData : ENABLED onComplete(s, d)
              /\ \A d \in ErrorData : ENABLED onError(s, d)

ReusableWitness ==
    /\ Cancelled(1) /\ Completed(2) /\ mutation = 2 /\ data = promise[2].value
    /\ lastOp.op = "complete"

ProgressInOrder ==
    [][/\ (lastOp'.op = "progress" /\ lastOp'.data.ok) =>
            /\ progress' = [stage |-> lastOp'.data.stage, message |-> lastOp'.data.message,
                            progress |-> lastOp'.data.progress]
            /\ progressFrom' = lastOp'.s
       /\ progress' # progress =>
            \/ lastOp'.op = "progress" /\ lastOp'.data.ok
            \/ lastOp'.op = "cancel" /\ progress' = Null]_vars

ProgressInOrderWitness ==
    /\ lastOp.op = "progress" /\ lastOp.data.ok
    /\ lastOp.data.stage = "analysis" /\ lastOp.data.progress = 5
    /\ progress = ParseProgress(lastOp.data)

\* A string a user can read: neither empty nor undefined.
NonEmpty(r) == Len(r) = 1 /\ r[1] # "" /\ r[1] # Undefined

\* C18 (the classifier is total): for every errorCode, the seven ErrorKinds and
\* unrecognized ones alike, getErrorMessage and getErrorAction return one
\* non-empty string, and calling them changes neither the error nor the hook.
ClassifierTotal ==
    /\ [](/\ shown.message # <<>> => NonEmpty(shown.message)
          /\ shown.action # <<>> => NonEmpty(shown.action))
    /\ [][apiError' = apiError /\ UNCHANGED hookVars]_vars

ClassifierTotalWitness ==
    /\ apiError.errorCode = "SOMETHING_ELSE"
    /\ shown.message = <<DefaultMessage>>
    /\ shown.action = <<"Try Again">>

\* C19 (retryable kinds): isRetryableError is true for INTERNAL_SERVER_ERROR,
\* ANALYSIS_ERROR and RATE_LIMIT_EXCEEDED and false for every other errorCode.
RetryableKinds ==
    shown.retryable # <<>> =>
        /\ apiError.errorCode \in {"INTERNAL_SERVER_ERROR", "ANALYSIS_ERROR",
                                    "RATE_LIMIT_EXCEEDED"} => shown.retryable = <<TRUE>>
        /\ apiError.errorCode \in {"VALIDATION_ERROR", "REPO_ACCESS_ERROR",
                                    "INSUFFICIENT_TOKENS", "CONNECTION_ERROR"}
              => shown.retryable = <<FALSE>>
        /\ apiError.errorCode \notin ErrorKind => shown.retryable = <<FALSE>>

RetryableKindsWitness ==
    apiError.errorCode = "RATE_LIMIT_EXCEEDED" /\ shown.retryable = <<TRUE>>

\* An EventSource that has been constructed and not closed.
IsOpen(s) == readyState[s] \in {"CONNECTING", "OPEN"}

\* C25 (eventSourceRef tracks the open transport): eventSourceRef.current is
\* non-null exactly when some EventSource of the hook is still open, and then
\* refers to an open one.
RefTracksOpenTransport ==
    /\ eventSourceRef # 0 => IsOpen(eventSourceRef)
    /\ (\E s \in Sessions : IsOpen(s)) => eventSourceRef # 0

\* C26 (progress comes from the latest session): a progress frame of a
\* session other than the most recently submitted one leaves progress alone.
ProgressFromLatestSession ==
    [][(lastOp'.op = "progress" /\ lastOp'.s # mutation') => progress' = progress]_vars

IconsAt(k) ==
    [i \in 1..Len(stages) |->
        IF i - 1 < k THEN "CheckCircle" ELSE IF i - 1 = k THEN "CircleDot" ELSE "Circle"]

\* C24 (stage display): rendered for a stage s of the fixed sequence,
\* ProgressIndicator shows step indexOf(s) + 1 of 4, a completed icon for every
\* stage before s, the active icon for s and a pending icon for every later one.
StageDisplay ==
    \A k \in 0..3 :
        (view.mounted /\ view.memoizedProps # Null /\ view.memoizedProps.stage = stages[k + 1])
            => /\ view.element.step = k + 1
               /\ view.element.of = 4
               /\ view.element.icons = IconsAt(k)

StageDisplayWitness ==
    /\ view.mounted /\ view.memoizedProps # Null
    /\ view.memoizedProps.stage = "template"
    /\ view.element.step = 3
    /\ view.element.icons = <<"CheckCircle", "CheckCircle", "CircleDot", "Circle">>

\* C30 (display of every observable progress): for the progress the hook
\* exposes, ProgressIndicator shows a step between 1 and 4 and exactly one
\* active icon.
ObservableStepInRange ==
    progress # Null =>
        /\ ProgressIndicator(progress).step \in 1..4
        /\ Cardinality({i \in 1..4 : ProgressIndicator(progress).icons[i] = "CircleDot"}) = 1

\* C23 (countdown from time_remaining): ErrorDisplay, given a quota error
\* whose details carry a positive time_remaining, returns UsageLimitExceeded
\* with retryAfter = details.time_remaining.
CountdownFromTimeRemaining ==
    (/\ element # "none"
     /\ displayed.errorCode \in {"RATE_LIMIT_EXCEEDED", "INSUFFICIENT_TOKENS"}
     /\ HasTimeRemaining(displayed))
        => /\ element \in {"UsageLimitExceeded", "unmounted"}
           /\ retryAfter = displayed.details[1].time_remaining[1]

\* C29 (countdown bounds): timeRemaining stays between 0 and retryAfter, and
\* while it is 0 with the effect run for it, no interval is set.
CountdownBounded ==
    element = "UsageLimitExceeded" =>
        /\ 0 <= timeRemaining
        /\ timeRemaining <= retryAfter
        /\ (timeRemaining = 0 /\ deps = <<0>>) => ~timer

\* The onProgress callbacks made so far.
onProgressCalls == SelectSeq(processed, LAMBDA f : f.event = "progress")

IsTerminalFrame(f) == f.event \in {"complete", "error"}

\* C21 (nothing after the terminal frame): a complete or error frame is the
\* last frame generateReadme processes.
NothingAfterTerminalFrame ==
    \A i \in 1..Len(processed) : IsTerminalFrame(processed[i]) => i = Len(processed)

\* C22 (stream end without terminal frame): when the response ends and no
\* complete or error frame was sent, the call is rejected with CONNECTION_ERROR.
EndWithoutTerminalFrame ==
    (returned.state \in {"resolved", "rejected"}
     /\ \A i \in 1..Len(frames) : ~IsTerminalFrame(frames[i]))
        => (returned.state = "rejected" /\ returned.value = "CONNECTION_ERROR")

\* C28 (independence of chunking): once the call has settled, its onProgress
\* callbacks and its outcome are those of the same response read as one chunk.
ChunkingIndependent ==
    returned.state \in {"resolved", "rejected"} =>
        LET whole == generateReadmeOf([processed |-> <<>>, result |-> "", outcome |-> Pending],
                                      IF frames = <<>> THEN <<>> ELSE <<Encode(frames)>>)
        IN  /\ onProgressCalls = SelectSeq(whole.processed, LAMBDA f : f.event = "progress")
            /\ returned = whole.outcome


====
